---------------------------- MODULE Spec2Model ----------------------------
(***************************************************************************)
(* Echo Chamber sequence detection engine                                  *)
(* (src/echo-chamber/src/sequence-detector.js).                            *)
(*                                                                         *)
(* JavaScript numbers are modelled as exact rationals n/d in lowest terms  *)
(* together with the three non-finite IEEE values NaN, +Infinity and       *)
(* -Infinity; the rounding of IEEE-754 doubles is not modelled (it is      *)
(* exact on the integer and dyadic inputs used here).  Array elements that *)
(* are not of type 'number' are the value Str.  JavaScript objects are     *)
(* records whose DOMAIN is the set of keys the object literal carries; the *)
(* descriptive strings `pattern' and `formula' are left out.               *)
(***************************************************************************)
EXTENDS Integers, Sequences, FiniteSets, TLC

(***************************************************************************)
(* Numbers                                                                 *)
(***************************************************************************)
RECURSIVE GCD(_, _)
GCD(a, b) == IF b = 0 THEN a ELSE GCD(b, a % b)

AbsInt(a) == IF a < 0 THEN -a ELSE a

Norm(n, d) ==
    LET s == IF d < 0 THEN -1 ELSE 1
        g == GCD(AbsInt(n), AbsInt(d))
    IN  [k |-> "fin", n |-> (s * n) \div g, d |-> (s * d) \div g]

Fin(n) == [k |-> "fin", n |-> n, d |-> 1]
Rat(n, d) == Norm(n, d)
NaN == [k |-> "nan", n |-> 0, d |-> 1]
PInf == [k |-> "inf", n |-> 1, d |-> 1]
NInf == [k |-> "inf", n |-> -1, d |-> 1]
Str == [k |-> "str", n |-> 0, d |-> 1]

Zero == Fin(0)

IsFin(a) == a.k = "fin"
Sign(a) == IF a.n > 0 THEN 1 ELSE IF a.n < 0 THEN -1 ELSE 0
InfOf(s) == IF s > 0 THEN PInf ELSE NInf

\* the isNaN test is dropped
NotANumber_m(a) == a.k = "str"

\* typeof num !== 'number' || isNaN(num)
NotANumber(a) == a.k = "str" \/ a.k = "nan"

Neg(a) == IF a.k \in {"fin", "inf"} THEN [a EXCEPT !.n = -a.n] ELSE NaN

Add(a, b) ==
    CASE IsFin(a) /\ IsFin(b) ->
            LET g == GCD(a.d, b.d)
                l == (a.d \div g) * b.d
            IN  Norm(a.n * (l \div a.d) + b.n * (l \div b.d), l)
      [] a.k = "inf" /\ IsFin(b) -> a
      [] IsFin(a) /\ b.k = "inf" -> b
      [] a.k = "inf" /\ b.k = "inf" -> IF a.n = b.n THEN a ELSE NaN
      [] OTHER -> NaN

Sub(a, b) == Add(a, Neg(b))

Mul(a, b) ==
    CASE IsFin(a) /\ IsFin(b) ->
            LET g1 == GCD(AbsInt(a.n), b.d)
                g2 == GCD(AbsInt(b.n), a.d)
            IN  Norm((a.n \div g1) * (b.n \div g2), (a.d \div g2) * (b.d \div g1))
      [] a.k \in {"fin", "inf"} /\ b.k \in {"fin", "inf"} ->
            IF Sign(a) * Sign(b) = 0 THEN NaN ELSE InfOf(Sign(a) * Sign(b))
      [] OTHER -> NaN

Div(a, b) ==
    CASE IsFin(a) /\ IsFin(b) ->
            IF b.n # 0 THEN Mul(a, Norm(b.d, b.n))
            ELSE IF a.n = 0 THEN NaN ELSE InfOf(Sign(a))
      [] a.k = "inf" /\ IsFin(b) -> InfOf(a.n * (IF b.n < 0 THEN -1 ELSE 1))
      [] IsFin(a) /\ b.k = "inf" -> Zero
      [] OTHER -> NaN

Abs(a) == IF a.k \in {"fin", "inf"} THEN [a EXCEPT !.n = AbsInt(a.n)] ELSE NaN

\* n1/d1 < n2/d2 for d1, d2 > 0, by integer parts and remainders, so that no
\* product of a numerator and a denominator is formed.
RECURSIVE FracLess(_, _, _, _)
FracLess(n1, d1, n2, d2) ==
    LET q1 == n1 \div d1
        q2 == n2 \div d2
        r1 == n1 % d1
        r2 == n2 % d2
    IN  IF q1 # q2 THEN q1 < q2
        ELSE IF r2 = 0 THEN FALSE
        ELSE IF r1 = 0 THEN TRUE
        ELSE FracLess(d2, r2, d1, r1)

\* a < b ; every comparison with NaN is false
Lt(a, b) ==
    CASE IsFin(a) /\ IsFin(b) -> FracLess(a.n, a.d, b.n, b.d)
      [] a.k = "inf" /\ IsFin(b) -> a.n < 0
      [] IsFin(a) /\ b.k = "inf" -> b.n > 0
      [] a.k = "inf" /\ b.k = "inf" -> a.n < b.n
      [] OTHER -> FALSE

Gt(a, b) == Lt(b, a)


(***************************************************************************)
(* Program constants                                                       *)
(***************************************************************************)
MinLength == 2
MinPolyLength == 4
MaxLevels == 5
MaxDegree == 4
Tolerance == Rat(1, 10000)
ConfidenceExact == Fin(1)
ConfidencePolynomial == Rat(9, 10)
ErrorTooShort == "Sequence must be an array with at least 2 elements"
ErrorNotNumbers == "All elements must be valid numbers"
ErrorNoPattern == "Unable to detect a valid pattern in the sequence"

(***************************************************************************)
(* Helpers shared by the detectors                                         *)
(***************************************************************************)
Last(seq) == seq[Len(seq)]

\* values.reduce((a, b) => a + b, 0)
RECURSIVE SumUpTo(_, _)
SumUpTo(values, m) ==
    IF m = 0 THEN Zero ELSE Add(SumUpTo(values, m - 1), values[m])

Sum(values) == SumUpTo(values, Len(values))

\* the sum is divided by the length of the sequence, not of the differences
Average_m(values) == Div(Sum(values), Fin(Len(values) + 1))

\* values.reduce((a, b) => a + b, 0) / values.length
Average(values) == Div(Sum(values), Fin(Len(values)))

\* level[i] - level[i - 1] for i = 1 .. length - 1
Differences(level) ==
    [i \in 1..(Len(level) - 1) |-> Sub(level[i + 1], level[i])]

\* the ratio is taken the wrong way round
Ratios_m(sequence) ==
    [i \in 1..(Len(sequence) - 1) |-> Div(sequence[i], sequence[i + 1])]

\* sequence[i] / sequence[i - 1] for i = 1 .. length - 1
Ratios(sequence) ==
    [i \in 1..(Len(sequence) - 1) |-> Div(sequence[i + 1], sequence[i])]

\* the tolerance is taken twice as wide
Near_m(v, avg) == Lt(Abs(Sub(v, avg)), Add(Tolerance, Tolerance))

\* Math.abs(v - avg) < 0.0001
Near(v, avg) == Lt(Abs(Sub(v, avg)), Tolerance)

\* a level that holds a single value is not taken as constant
IsConstant_m(values) ==
    /\ Len(values) >= 2
    /\ \A i, j \in 1..Len(values) :
            Lt(Abs(Sub(values[i], values[j])), Add(Tolerance, Tolerance))
    /\ \A i \in 1..Len(values) : Near(values[i], Average(values))

\* values.every(v => Math.abs(v - avg) < 0.0001), avg the average of values.
\* Two values that are not within twice the tolerance of each other cannot
\* both be within the tolerance of the average, so every() is false then and
\* the average is evaluated only when the first conjunct holds (it keeps the
\* numerators and denominators of the average within TLC's integers).
IsConstant(values) ==
    /\ \A i, j \in 1..Len(values) :
            Lt(Abs(Sub(values[i], values[j])), Add(Tolerance, Tolerance))
    /\ \A i \in 1..Len(values) : Near(values[i], Average(values))

Decline == [isValid |-> FALSE]

(***************************************************************************)
(* detectArithmetic                                                        *)
(***************************************************************************)
\* a pair is declined: three terms are asked for
detectArithmetic_m(sequence) ==
    LET differences == Differences(sequence)
        avgDifference == Average(differences)
    IN  IF Len(sequence) >= 3 /\ IsConstant(differences)
        THEN [success |-> TRUE,
              isValid |-> TRUE,
              type |-> "arithmetic",
              parameters |-> [difference |-> avgDifference,
                              firstTerm |-> sequence[1]],
              prediction |-> Add(Last(sequence), avgDifference),
              confidence |-> ConfidenceExact,
              sequence |-> sequence]
        ELSE Decline

detectArithmetic(sequence) ==
    LET differences == Differences(sequence)
        avgDifference == Average(differences)
    IN  IF IsConstant(differences)
        THEN [success |-> TRUE,
              isValid |-> TRUE,
              type |-> "arithmetic",
              parameters |-> [difference |-> avgDifference,
                              firstTerm |-> sequence[1]],
              prediction |-> Add(Last(sequence), avgDifference),
              confidence |-> ConfidenceExact,
              sequence |-> sequence]
        ELSE Decline

(***************************************************************************)
(* detectGeometric                                                         *)
(***************************************************************************)
\* only the first element is tested
HasZero_m(sequence) == Len(sequence) > 0 /\ sequence[1] = Zero

HasZero(sequence) == \E i \in 1..Len(sequence) : sequence[i] = Zero

\* the local array `ratios' when detectGeometric returns
ratiosOf(sequence) == IF HasZero(sequence) THEN << >> ELSE Ratios(sequence)

\* the size of the mean ratio is not looked at
detectGeometric_m(sequence) ==
    IF HasZero(sequence) THEN Decline
    ELSE LET ratios == Ratios(sequence)
             avgRatio == Average(ratios)
         IN  IF IsConstant(ratios)
             THEN [success |-> TRUE,
                   isValid |-> TRUE,
                   type |-> "geometric",
                   parameters |-> [ratio |-> avgRatio,
                                   firstTerm |-> sequence[1]],
                   prediction |-> Mul(Last(sequence), avgRatio),
                   confidence |-> ConfidenceExact,
                   sequence |-> sequence]
             ELSE Decline

detectGeometric(sequence) ==
    IF HasZero(sequence) THEN Decline
    ELSE LET ratios == Ratios(sequence)
             avgRatio == Average(ratios)
         IN  IF IsConstant(ratios) /\ Gt(Abs(avgRatio), Tolerance)
             THEN [success |-> TRUE,
                   isValid |-> TRUE,
                   type |-> "geometric",
                   parameters |-> [ratio |-> avgRatio,
                                   firstTerm |-> sequence[1]],
                   prediction |-> Mul(Last(sequence), avgRatio),
                   confidence |-> ConfidenceExact,
                   sequence |-> sequence]
             ELSE Decline

(***************************************************************************)
(* detectPolynomial and predictFromDifferences                             *)
(***************************************************************************)
\* one more difference level is built before the loop gives up
RECURSIVE DiffLoop_m(_, _)
DiffLoop_m(diffLevels, level) ==
    LET currentLevel == Last(diffLevels)
    IN  IF ~(level <= MaxLevels /\ Len(currentLevel) > 1)
        THEN [diffLevels |-> diffLevels, degree |-> 0]
        ELSE LET nextLevel == Differences(currentLevel)
                 pushed == Append(diffLevels, nextLevel)
             IN  IF Len(nextLevel) > 0 /\ IsConstant(nextLevel)
                 THEN [diffLevels |-> pushed, degree |-> level + 1]
                 ELSE DiffLoop_m(pushed, level + 1)

\* the for loop of detectPolynomial, entered with `level'; the current level
\* is the level pushed last
RECURSIVE DiffLoop(_, _)
DiffLoop(diffLevels, level) ==
    LET currentLevel == Last(diffLevels)
    IN  IF ~(level < MaxLevels /\ Len(currentLevel) > 1)
        THEN [diffLevels |-> diffLevels, degree |-> 0]
        ELSE LET nextLevel == Differences(currentLevel)
                 pushed == Append(diffLevels, nextLevel)
             IN  IF Len(nextLevel) > 0 /\ IsConstant(nextLevel)
                 THEN [diffLevels |-> pushed, degree |-> level + 1]
                 ELSE DiffLoop(pushed, level + 1)

\* the loop stops one level early: the sequence itself is not extended
RECURSIVE ExtendLoop_m(_, _)
ExtendLoop_m(extendedLevels, i) ==
    IF i <= 2 THEN extendedLevels
    ELSE LET currentLevel == extendedLevels[i]
             parentLevel == extendedLevels[i - 1]
         IN  IF Len(currentLevel) > 0
             THEN LET lastValue == Last(currentLevel)
                      parentLastValue == Last(parentLevel)
                  IN  ExtendLoop_m(
                        [extendedLevels EXCEPT
                           ![i] = Append(currentLevel, lastValue),
                           ![i - 1] = Append(parentLevel,
                                             Add(parentLastValue, lastValue))],
                        i - 1)
             ELSE ExtendLoop_m(extendedLevels, i - 1)

\* the loop of predictFromDifferences, entered with index i (1-based)
RECURSIVE ExtendLoop(_, _)
ExtendLoop(extendedLevels, i) ==
    IF i <= 1 THEN extendedLevels
    ELSE LET currentLevel == extendedLevels[i]
             parentLevel == extendedLevels[i - 1]
         IN  IF Len(currentLevel) > 0
             THEN LET lastValue == Last(currentLevel)
                      parentLastValue == Last(parentLevel)
                  IN  ExtendLoop(
                        [extendedLevels EXCEPT
                           ![i] = Append(currentLevel, lastValue),
                           ![i - 1] = Append(parentLevel,
                                             Add(parentLastValue, lastValue))],
                        i - 1)
             ELSE ExtendLoop(extendedLevels, i - 1)

extendLevels(diffLevels) == ExtendLoop(diffLevels, Len(diffLevels))

\* the levels are extended in place
LevelsAfterPredict_m(diffLevels) == extendLevels(diffLevels)

\* the caller's levels once predictFromDifferences has returned:
\* extendedLevels holds copies of the levels (map and spread), so the two
\* pushes of the loop do not reach the levels passed in, level 0 of which is
\* the array given to analyze
LevelsAfterPredict(diffLevels) == diffLevels

\* only the first difference level is added
predictFromDifferences_m(diffLevels) ==
    Add(Last(diffLevels[1]), Last(diffLevels[2]))

predictFromDifferences(diffLevels) == Last(extendLevels(diffLevels)[1])

\* the parameters hold the levels as extended for the prediction
detectPolynomial_m(sequence) ==
    IF Len(sequence) < MinPolyLength THEN Decline
    ELSE LET loop == DiffLoop(<<sequence>>, 0)
             degree == loop.degree
             diffLevels == loop.diffLevels
         IN  IF degree > 0 /\ degree <= MaxDegree
             THEN [success |-> TRUE,
                   isValid |-> TRUE,
                   type |-> "polynomial",
                   parameters |-> [degree |-> degree,
                                   differences |-> extendLevels(diffLevels)],
                   prediction |-> predictFromDifferences(diffLevels),
                   confidence |-> ConfidencePolynomial,
                   sequence |-> sequence]
             ELSE Decline

detectPolynomial(sequence) ==
    IF Len(sequence) < MinPolyLength THEN Decline
    ELSE LET loop == DiffLoop(<<sequence>>, 0)
             degree == loop.degree
             diffLevels == loop.diffLevels
         IN  IF degree > 0 /\ degree <= MaxDegree
             THEN [success |-> TRUE,
                   isValid |-> TRUE,
                   type |-> "polynomial",
                   parameters |-> [degree |-> degree,
                                   differences |-> diffLevels],
                   prediction |-> predictFromDifferences(diffLevels),
                   confidence |-> ConfidencePolynomial,
                   sequence |-> sequence]
             ELSE Decline

(***************************************************************************)
(* analyze                                                                 *)
(***************************************************************************)
\* An argument is [isArray, nullish, elems]: elems is the array, or << >> for
\* an argument that is not an array; nullish marks null and undefined, whose
\* properties cannot be read.
InvalidShape(arg) == ~arg.isArray \/ Len(arg.elems) < MinLength

InvalidElements(arg) == \E i \in 1..Len(arg.elems) : NotANumber(arg.elems[i])

ResultTooShort == [success |-> FALSE, error |-> ErrorTooShort, type |-> "invalid"]

ResultNotNumbers ==
    [success |-> FALSE, error |-> ErrorNotNumbers, type |-> "invalid"]

\* the error message is left out
ResultUnknown_m(sequence) ==
    [success |-> FALSE, type |-> "unknown", sequence |-> sequence]

ResultUnknown(sequence) ==
    [success |-> FALSE, error |-> ErrorNoPattern, type |-> "unknown",
     sequence |-> sequence]

\* the polynomial detector is not tried
analyze_m(arg) ==
    IF InvalidShape(arg) THEN ResultTooShort
    ELSE IF InvalidElements(arg) THEN ResultNotNumbers
    ELSE LET sequence == arg.elems
             arithmeticResult == detectArithmetic(sequence)
             geometricResult == detectGeometric(sequence)
         IN  IF arithmeticResult.isValid THEN arithmeticResult
             ELSE IF geometricResult.isValid THEN geometricResult
             ELSE ResultUnknown(sequence)

analyze(arg) ==
    IF InvalidShape(arg) THEN ResultTooShort
    ELSE IF InvalidElements(arg) THEN ResultNotNumbers
    ELSE LET sequence == arg.elems
             arithmeticResult == detectArithmetic(sequence)
             geometricResult == detectGeometric(sequence)
             polynomialResult == detectPolynomial(sequence)
         IN  IF arithmeticResult.isValid THEN arithmeticResult
             ELSE IF geometricResult.isValid THEN geometricResult
             ELSE IF polynomialResult.isValid THEN polynomialResult
             ELSE ResultUnknown(sequence)

\* the array given to analyze once analyze has returned `returned': only
\* the polynomial detector, on accepting, calls predictFromDifferences
InputAfterAnalyze(sequence, returned) ==
    IF returned.type = "polynomial"
    THEN LevelsAfterPredict(returned.parameters.differences)[1]
    ELSE sequence

Arr(elems) == [isArray |-> TRUE, nullish |-> FALSE, elems |-> elems]
\* a value that is not an array but has properties (a string, a number)
NotArray == [isArray |-> FALSE, nullish |-> FALSE, elems |-> << >>]
\* null or undefined
NullArg == [isArray |-> FALSE, nullish |-> TRUE, elems |-> << >>]

\* `sequence.length' is read whatever Array.isArray answers
ReadsLength_m(arg) == TRUE

\* `sequence.length' is the right operand of ||: it is read only when
\* Array.isArray(sequence) holds
ReadsLength(arg) == arg.isArray

\* reading a property of null or undefined throws a TypeError
LengthThrows(arg) == ReadsLength(arg) /\ arg.nullish

\* spreading null or undefined throws a TypeError
SpreadThrows(arg) == arg.nullish

(***************************************************************************)
(* predictMultiple (as a function of its arguments)                        *)
(***************************************************************************)
\* the prediction is not appended to the working sequence
LoopBody_m(st) ==
    LET result == analyze(Arr(st.currentSequence))
    IN  IF ~result.success THEN [st EXCEPT !.stopped = TRUE]
        ELSE [st EXCEPT !.predictions = Append(@, result.prediction)]

\* the array given to predictMultiple once values have been pushed on
\* currentSequence, which is a copy of it (spread)
InputAfterPush(sequence, currentSequence) == sequence

\* one pass of the body of the for loop: st = [predictions, currentSequence,
\* stopped]
LoopBody(st) ==
    LET result == analyze(Arr(st.currentSequence))
    IN  IF ~result.success THEN [st EXCEPT !.stopped = TRUE]
        ELSE [st EXCEPT
                !.predictions = Append(@, result.prediction),
                !.currentSequence = Append(@, result.prediction)]

RECURSIVE Iterate(_, _, _)
\* the for loop entered with counter i
Iterate(st, i, count) ==
    IF ~(i < count) \/ st.stopped THEN st
    ELSE Iterate(LoopBody(st), i + 1, count)

predictMultiple(arg, count) ==
    LET analysis == analyze(arg)
    IN  IF ~analysis.success THEN analysis
        ELSE LET st == Iterate([predictions |-> << >>,
                                currentSequence |-> arg.elems,
                                stopped |-> FALSE], 0, count)
             IN  [predictions |-> st.predictions,
                  extendedSequence |-> st.currentSequence] @@ analysis

(***************************************************************************)
(* Inputs                                                                  *)
(***************************************************************************)
MaxLen == 4
MaxTerms == 5
MaxCount == 3

SmallValues == {Fin(0), Fin(1), Fin(2), Fin(4), PInf, NaN, Str}

SmallSeqs == UNION {[1..n -> SmallValues] : n \in 0..MaxLen}

RECURSIVE Pow(_, _)
Pow(r, e) == IF e = 0 THEN Fin(1) ELSE Mul(Pow(r, e - 1), r)

ArithSeq(a, d, n) == [i \in 1..n |-> Add(a, Mul(Fin(i - 1), d))]
GeoSeq(a, r, n) == [i \in 1..n |-> Mul(a, Pow(r, i - 1))]
PolyValue(c, x) == c[1] + c[2] * x + c[3] * x * x + c[4] * x * x * x
PolySeq(c, n) == [x \in 1..n |-> Fin(PolyValue(c, x))]

ArithStarts == {Fin(0), Fin(3), Fin(5), Fin(-5), Rat(3, 2)}
ArithDiffs == {Fin(0), Fin(1), Fin(3), Fin(-3), Rat(1, 2)}
GeoStarts == {Fin(1), Fin(2), Fin(-3), Rat(1, 100000)}
GeoRatios == {Fin(1), Fin(2), Fin(3), Fin(-1), Fin(-2), Rat(1, 2), Rat(3, 2)}
PolyCoeffs == {0, 1} \X {-2, 0, 1} \X {-1, 0, 1, 2} \X {-1, 0, 1}

ArithSeqs == {ArithSeq(a, d, n) : a \in ArithStarts, d \in ArithDiffs,
                                  n \in MinLength..MaxTerms}
GeoSeqs == {GeoSeq(a, r, n) : a \in GeoStarts, r \in GeoRatios,
                              n \in MinLength..MaxTerms}
PolySeqs == {PolySeq(c, n) : c \in PolyCoeffs, n \in MinPolyLength..(MaxTerms + 1)}

ListedSeqs ==
    { <<Fin(1), Fin(2), Fin(4), Fin(7), Fin(13)>>,
      <<Fin(1), Fin(2), Fin(4), Fin(7), Fin(13), Fin(24), Fin(44)>>,
      <<Fin(1), Fin(3), Fin(2), Fin(5), Fin(1), Fin(7)>>,
      <<Fin(1), Fin(0), Fin(2)>>,
      <<NInf, Fin(1)>>,
      <<Fin(1), Fin(2), Fin(3), NInf>>,
      <<Fin(100000000), Fin(10000), Fin(1)>>,
      <<Fin(0), Rat(2, 10000), Rat(2, 10000)>>,
      \* the cubes with the last one off by 1/6000: the fourth differences
      \* [0, 1/6000] are within the tolerance of their mean, and after one
      \* prediction [0, 1/6000, 1/6000] are not
      <<Fin(0), Fin(1), Fin(8), Fin(27), Fin(64), Rat(750001, 6000)>>,
      \* differences [0, 19/100000, 19/100000]: the first is further than the
      \* tolerance from their mean, and no two are twice the tolerance apart
      <<Fin(0), Fin(0), Rat(19, 100000), Rat(38, 100000)>>,
      \* ratios [1, 1.0002]: each exactly the tolerance from their mean
      <<Fin(1), Fin(1), Rat(5001, 5000)>> }

\* Sequences whose consecutive ratios differ, but by less than the tolerance.
\* Their predictions have numerators that outgrow TLC's integers when fed
\* back, so they are arguments of analyze only.
NearGeometricSeqs ==
    { PolySeq(<<762, 37, 1, 0>>, MinPolyLength),
      <<Fin(100), Fin(110), Fin(121), Rat(1331, 10)>>,
      <<Fin(400), Fin(420), Fin(441), Fin(463)>> }

Sequences == SmallSeqs \cup ArithSeqs \cup GeoSeqs \cup PolySeqs \cup ListedSeqs

Arguments == {NotArray, NullArg} \cup {Arr(s) : s \in Sequences}

AnalyzeArguments == Arguments \cup {Arr(s) : s \in NearGeometricSeqs}

(***************************************************************************)
(* State                                                                   *)
(***************************************************************************)
VARIABLES
    call,             \* the operation called: "analyze" or "predictMultiple"
    arg,              \* its argument `sequence'
    count,            \* the argument `count' of predictMultiple
    pc,               \* position in the called operation
    ran,              \* the steps of the call run so far, in order
    ratios,           \* the local array `ratios' of detectGeometric
    result,           \* value returned by the call (NoResult before)
    analysis,         \* predictMultiple: the local `analysis'
    predictions,      \* predictMultiple: the local `predictions'
    currentSequence,  \* predictMultiple: the local `currentSequence'
    i,                \* predictMultiple: the loop counter
    frames,           \* calls in progress at the same time: for each caller,
                      \* the arguments, position and locals of its call
    front,            \* the program that owns the memory store, "none" when
                      \* no store has been constructed
    memories,         \* MemoryStore: the array `memories'
    stats,            \* MemoryStore: the object `stats'
    reply             \* the last operation on the store and what it returned

vars == <<call, arg, count, pc, ran, ratios, result, analysis, predictions,
          currentSequence, i, frames, front, memories, stats, reply>>

storeVars == <<front, memories, stats, reply>>

NoResult == [pending |-> TRUE]

pmVars == <<analysis, predictions, currentSequence, i>>

\* the statistics of an empty store
EmptyStats ==
    [totalProcessed |-> 0,
     byType |-> [t \in {} |-> 0],
     averageConfidence |-> Zero,
     successRate |-> Zero]

NoReply == [op |-> "none"]

\* no memory store is in use
NoStore ==
    /\ front = "none"
    /\ memories = << >>
    /\ stats = EmptyStats
    /\ reply = NoReply

Init ==
    /\ call \in {"analyze", "predictMultiple"}
    /\ arg \in (IF call = "analyze" THEN AnalyzeArguments ELSE Arguments)
    /\ count \in (IF call = "analyze" THEN {0} ELSE 0..MaxCount)
    /\ pc = IF call = "analyze" THEN "validate" ELSE "pm_analyze"
    /\ ran = << >>
    /\ ratios = << >>
    /\ result = NoResult
    /\ analysis = NoResult
    /\ predictions = << >>
    /\ currentSequence = << >>
    /\ i = 0
    /\ frames = << >>
    /\ NoStore

(***************************************************************************)
(* analyze, step by step                                                   *)
(***************************************************************************)
\* a valid input goes straight to the polynomial detector
Validate_m ==
    /\ pc = "validate"
    /\ ran' = Append(ran, "validate")
    /\ IF LengthThrows(arg)
       THEN result' = result /\ pc' = "thrown"
       ELSE IF InvalidShape(arg)
            THEN result' = ResultTooShort /\ pc' = "done"
            ELSE IF InvalidElements(arg)
                 THEN result' = ResultNotNumbers /\ pc' = "done"
                 ELSE result' = result /\ pc' = "polynomial"
    /\ UNCHANGED <<storeVars, frames, call, arg, count, ratios, pmVars>>

Validate ==
    /\ pc = "validate"
    /\ ran' = Append(ran, "validate")
    /\ IF LengthThrows(arg)
       THEN result' = result /\ pc' = "thrown"
       ELSE IF InvalidShape(arg)
            THEN result' = ResultTooShort /\ pc' = "done"
            ELSE IF InvalidElements(arg)
                 THEN result' = ResultNotNumbers /\ pc' = "done"
                 ELSE result' = result /\ pc' = "arithmetic"
    /\ UNCHANGED <<storeVars, frames, call, arg, count, ratios, pmVars>>

\* the geometric detector is skipped when the arithmetic detector declines
DetectArithmetic_m ==
    /\ pc = "arithmetic"
    /\ ran' = Append(ran, "arithmetic")
    /\ LET arithmeticResult == detectArithmetic(arg.elems)
       IN  IF arithmeticResult.isValid
           THEN result' = arithmeticResult /\ pc' = "done"
           ELSE result' = result /\ pc' = "polynomial"
    /\ UNCHANGED <<storeVars, frames, call, arg, count, ratios, pmVars>>

DetectArithmetic ==
    /\ pc = "arithmetic"
    /\ ran' = Append(ran, "arithmetic")
    /\ LET arithmeticResult == detectArithmetic(arg.elems)
       IN  IF arithmeticResult.isValid
           THEN result' = arithmeticResult /\ pc' = "done"
           ELSE result' = result /\ pc' = "geometric"
    /\ UNCHANGED <<storeVars, frames, call, arg, count, ratios, pmVars>>

DetectGeometric ==
    /\ pc = "geometric"
    /\ ran' = Append(ran, "geometric")
    /\ ratios' = ratiosOf(arg.elems)
    /\ LET geometricResult == detectGeometric(arg.elems)
       IN  IF geometricResult.isValid
           THEN result' = geometricResult /\ pc' = "done"
           ELSE result' = result /\ pc' = "polynomial"
    /\ UNCHANGED <<storeVars, frames, call, arg, count, pmVars>>

DetectPolynomial ==
    /\ pc = "polynomial"
    /\ ran' = Append(ran, "polynomial")
    /\ LET polynomialResult == detectPolynomial(arg.elems)
       IN  IF polynomialResult.isValid
           THEN /\ result' = polynomialResult
                /\ pc' = "done"
                /\ arg' = [arg EXCEPT
                             !.elems = InputAfterAnalyze(@, polynomialResult)]
           ELSE /\ result' = result
                /\ pc' = "unknown"
                /\ arg' = arg
    /\ UNCHANGED <<storeVars, frames, call, count, ratios, pmVars>>

ReturnUnknown ==
    /\ pc = "unknown"
    /\ result' = ResultUnknown(arg.elems)
    /\ pc' = "done"
    /\ UNCHANGED <<storeVars, frames, call, arg, count, ran, ratios, pmVars>>

(***************************************************************************)
(* predictMultiple, step by step                                           *)
(***************************************************************************)
\* a failed first analysis is returned with an empty predictions list
\* the loop runs once more than count
LoopCondition_m == i <= count

\* the condition of the for loop
LoopCondition == i < count

PMAnalyze_m ==
    /\ pc = "pm_analyze"
    /\ ran' = Append(ran, "pm_analyze")
    /\ IF LengthThrows(arg)
       THEN /\ pc' = "thrown"
            /\ UNCHANGED <<arg, result, pmVars>>
       ELSE /\ analysis' = analyze(arg)
            /\ arg' = [arg EXCEPT !.elems = InputAfterAnalyze(@, analysis')]
            /\ IF ~analysis'.success
               THEN /\ result' = [predictions |-> << >>] @@ analysis'
                    /\ pc' = "done"
                    /\ UNCHANGED <<predictions, currentSequence, i>>
               ELSE IF SpreadThrows(arg)
                    THEN /\ pc' = "thrown"
                         /\ UNCHANGED <<result, predictions, currentSequence, i>>
                    ELSE /\ predictions' = << >>
                         /\ currentSequence' = arg.elems
                         /\ i' = 0
                         /\ pc' = "pm_loop"
                         /\ result' = result
    /\ UNCHANGED <<storeVars, frames, call, count, ratios>>

PMAnalyze ==
    /\ pc = "pm_analyze"
    /\ ran' = Append(ran, "pm_analyze")
    /\ IF LengthThrows(arg)
       THEN /\ pc' = "thrown"
            /\ UNCHANGED <<arg, result, pmVars>>
       ELSE /\ analysis' = analyze(arg)
            /\ arg' = [arg EXCEPT !.elems = InputAfterAnalyze(@, analysis')]
            /\ IF ~analysis'.success
               THEN /\ result' = analysis'
                    /\ pc' = "done"
                    /\ UNCHANGED <<predictions, currentSequence, i>>
               ELSE IF SpreadThrows(arg)
                    THEN /\ pc' = "thrown"
                         /\ UNCHANGED <<result, predictions, currentSequence, i>>
                    ELSE /\ predictions' = << >>
                         /\ currentSequence' = arg.elems
                         /\ i' = 0
                         /\ pc' = "pm_loop"
                         /\ result' = result
    /\ UNCHANGED <<storeVars, frames, call, count, ratios>>

\* every iteration appends the prediction of the first analysis
PMIterate_m ==
    /\ pc = "pm_loop"
    /\ LoopCondition
    /\ IF ~analyze(Arr(currentSequence)).success
       THEN /\ pc' = "pm_return"
            /\ UNCHANGED <<arg, predictions, currentSequence, i>>
       ELSE /\ predictions' = Append(predictions, analysis.prediction)
            /\ currentSequence' = Append(currentSequence, analysis.prediction)
            /\ arg' = [arg EXCEPT !.elems = InputAfterPush(@, currentSequence')]
            /\ pc' = "pm_loop"
            /\ i' = i + 1
    /\ ran' = Append(ran, "pm_iterate")
    /\ UNCHANGED <<storeVars, frames, call, count, ratios, result, analysis>>

PMIterate ==
    /\ pc = "pm_loop"
    /\ LoopCondition
    /\ LET st == LoopBody([predictions |-> predictions,
                           currentSequence |-> currentSequence,
                           stopped |-> FALSE])
       IN  /\ predictions' = st.predictions
           /\ currentSequence' = st.currentSequence
           /\ arg' = [arg EXCEPT
                        !.elems = InputAfterPush(@, st.currentSequence)]
           /\ IF st.stopped
              THEN pc' = "pm_return" /\ i' = i
              ELSE pc' = "pm_loop" /\ i' = i + 1
    /\ ran' = Append(ran, "pm_iterate")
    /\ UNCHANGED <<storeVars, frames, call, count, ratios, result, analysis>>

\* the fields of the analysis of the extended sequence are returned
PMReturn_m ==
    /\ \/ pc = "pm_loop" /\ ~LoopCondition
       \/ pc = "pm_return"
    /\ result' = [predictions |-> predictions,
                  extendedSequence |-> currentSequence]
                 @@ analyze(Arr(currentSequence))
    /\ pc' = "done"
    /\ ran' = Append(ran, "pm_return")
    /\ UNCHANGED <<storeVars, frames, call, arg, count, ratios, pmVars>>

PMReturn ==
    /\ \/ pc = "pm_loop" /\ ~LoopCondition
       \/ pc = "pm_return"
    /\ result' = [predictions |-> predictions,
                  extendedSequence |-> currentSequence] @@ analysis
    /\ pc' = "done"
    /\ ran' = Append(ran, "pm_return")
    /\ UNCHANGED <<storeVars, frames, call, arg, count, ratios, pmVars>>

Next ==
    \/ Validate
    \/ DetectArithmetic
    \/ DetectGeometric
    \/ DetectPolynomial
    \/ ReturnUnknown
    \/ PMAnalyze
    \/ PMIterate
    \/ PMReturn

Spec == Init /\ [][Next]_vars

Positions ==
    {"validate", "arithmetic", "geometric", "polynomial", "unknown",
     "pm_analyze", "pm_loop", "pm_return", "done", "thrown"}

\* a call that has not returned moves on to its next position (or to the
\* next pass of the loop): every step of Next is such a step, and one is
\* possible exactly when the call has not returned
Advance ==
    pc \notin {"done", "thrown"} /\ pc' \in Positions /\ i' \in 0..(count + 1)

\* a call that is started runs on: no step of it waits for anything
FairSpec == Spec /\ WF_<<pc, i>>(Advance)

Done == pc = "done"

(***************************************************************************)
(* Several calls in progress at once                                       *)
(***************************************************************************)
\* The callers (requests being handled by one server process).
Callers == {"a", "b"}

ConcSequences ==
    { <<Fin(3), Fin(6), Fin(9)>>,
      <<Fin(2), Fin(4), Fin(8)>>,
      <<Fin(1), Fin(4), Fin(9), Fin(16)>>,
      <<Fin(1), Fin(0), Fin(2)>>,
      <<Fin(0), Fin(1), Fin(8), Fin(27), Fin(64), Rat(750001, 6000)>> }

ConcArguments == {NullArg} \cup {Arr(s) : s \in ConcSequences}

\* the frame of a call that is about to start: its arguments, its position
\* and its locals, none of which is visible to another call
NewFrame(c, a, n) ==
    [call |-> c, arg |-> a, count |-> n,
     pc |-> IF c = "analyze" THEN "analyze" ELSE "pm_analyze",
     analysis |-> NoResult, predictions |-> << >>,
     currentSequence |-> << >>, i |-> 0, result |-> NoResult]

NewFrames ==
    {NewFrame("analyze", a, 0) : a \in ConcArguments}
      \cup {NewFrame("predictMultiple", a, n) :
               a \in ConcArguments, n \in 0..MaxCount}

\* the next step of the call of frame f: analyze has no point at which it
\* gives up control, predictMultiple is cut before every pass of its loop
FrameStep(f) ==
    CASE f.pc = "analyze" ->
            [f EXCEPT !.result = analyze(f.arg), !.pc = "done"]
      [] f.pc = "pm_analyze" ->
            LET firstAnalysis == analyze(f.arg)
            IN  IF ~firstAnalysis.success
                THEN [f EXCEPT !.analysis = firstAnalysis, !.result = firstAnalysis,
                               !.pc = "done"]
                ELSE [f EXCEPT !.analysis = firstAnalysis,
                               !.predictions = << >>,
                               !.currentSequence = f.arg.elems,
                               !.i = 0,
                               !.pc = "pm_loop"]
      [] f.pc = "pm_loop" /\ f.i < f.count ->
            LET st == LoopBody([predictions |-> f.predictions,
                                currentSequence |-> f.currentSequence,
                                stopped |-> FALSE])
            IN  IF st.stopped
                THEN [f EXCEPT !.pc = "pm_return"]
                ELSE [f EXCEPT !.predictions = st.predictions,
                               !.currentSequence = st.currentSequence,
                               !.i = f.i + 1]
      [] OTHER ->
            [f EXCEPT !.result = [predictions |-> f.predictions,
                                  extendedSequence |-> f.currentSequence]
                                 @@ f.analysis,
                      !.pc = "done"]

NoCall ==
    /\ call = "none"
    /\ arg = NullArg
    /\ count = 0
    /\ pc = "done"
    /\ ran = << >>
    /\ ratios = << >>
    /\ result = NoResult
    /\ analysis = NoResult
    /\ predictions = << >>
    /\ currentSequence = << >>
    /\ i = 0

ConcInit == NoCall /\ frames \in [Callers -> NewFrames] /\ NoStore

\* predictions and currentSequence are one pair of arrays that every call
\* in progress works on
CStep_m(p) ==
    /\ frames[p].pc # "done"
    /\ LET f == FrameStep(frames[p])
       IN  frames' = [q \in Callers |->
                        IF q = p THEN f
                        ELSE IF frames[q].pc \in {"pm_loop", "pm_return"}
                             THEN [frames[q] EXCEPT
                                     !.predictions = f.predictions,
                                     !.currentSequence = f.currentSequence]
                             ELSE frames[q]]
    /\ UNCHANGED <<storeVars, call, arg, count, pc, ran, ratios, result, pmVars>>

\* caller p's call takes its next step
CStep(p) ==
    /\ frames[p].pc # "done"
    /\ frames' = [frames EXCEPT ![p] = FrameStep(frames[p])]
    /\ UNCHANGED <<storeVars, call, arg, count, pc, ran, ratios, result, pmVars>>

ConcNext == \E p \in Callers : CStep(p)

ConcSpec == ConcInit /\ [][ConcNext]_vars

(***************************************************************************)
(* MemoryStore                                                             *)
(***************************************************************************)
\* a number as a condition: 0 and NaN count as false
Truthy(v) == v # Zero /\ v # NaN

\* `mem_${Date.now()}_${Math.random()...}': the clock reading and the random
\* suffix are what tells two ids apart
generateId(reading) == <<"mem", reading.idNow, reading.random>>

\* the memory that store(result) builds
Memory(given, reading) ==
    [id |-> generateId(reading),
     timestamp |-> reading.isoNow,
     result |-> given,
     sequence |-> IF "sequence" \in DOMAIN given THEN given.sequence
                  ELSE << >>,
     type |-> IF "type" \in DOMAIN given /\ given.type # ""
              THEN given.type ELSE "unknown",
     success |-> IF "success" \in DOMAIN given THEN given.success
                 ELSE FALSE]

\* one more memory of type t in the object byType
CountOneMore(byType, t) ==
    [u \in DOMAIN byType \cup {t} |->
        IF u = t THEN (IF t \in DOMAIN byType THEN byType[t] ELSE 0) + 1
        ELSE byType[u]]

RECURSIVE StatsLoop(_, _, _)
\* the forEach of updateStats from memory j on
StatsLoop(mems, j, acc) ==
    IF j > Len(mems) THEN acc
    ELSE LET memory == mems[j]
             confident == /\ "confidence" \in DOMAIN memory.result
                          /\ Truthy(memory.result.confidence)
         IN  StatsLoop(mems, j + 1,
                [byType |-> CountOneMore(acc.byType, memory.type),
                 totalConfidence |->
                    IF confident
                    THEN Add(acc.totalConfidence, memory.result.confidence)
                    ELSE acc.totalConfidence,
                 successCount |->
                    IF memory.success THEN acc.successCount + 1
                    ELSE acc.successCount])

\* the average confidence is not divided by the number of memories
updateStats_m(mems) ==
    LET acc == StatsLoop(mems, 1, [byType |-> [t \in {} |-> 0],
                                   totalConfidence |-> Zero,
                                   successCount |-> 0])
    IN  [totalProcessed |-> Len(mems),
         byType |-> acc.byType,
         averageConfidence |-> acc.totalConfidence,
         successRate |-> IF Len(mems) > 0
                         THEN Div(Fin(acc.successCount), Fin(Len(mems)))
                         ELSE Zero]

\* the statistics that updateStats leaves for the memories mems
updateStats(mems) ==
    LET acc == StatsLoop(mems, 1, [byType |-> [t \in {} |-> 0],
                                   totalConfidence |-> Zero,
                                   successCount |-> 0])
    IN  [totalProcessed |-> Len(mems),
         byType |-> acc.byType,
         averageConfidence |-> IF Len(mems) > 0
                               THEN Div(acc.totalConfidence, Fin(Len(mems)))
                               ELSE Zero,
         successRate |-> IF Len(mems) > 0
                         THEN Div(Fin(acc.successCount), Fin(Len(mems)))
                         ELSE Zero]

\* Array.prototype.slice(start) with no end
SliceFrom(arr, start) ==
    LET from == IF start < 0
                THEN (IF Len(arr) + start > 0 THEN Len(arr) + start ELSE 0)
                ELSE (IF start < Len(arr) THEN start ELSE Len(arr))
    IN  SubSeq(arr, from + 1, Len(arr))

Reverse(arr) == [j \in 1..Len(arr) |-> arr[Len(arr) + 1 - j]]

DefaultRecent == 10

\* getRecent called with the arguments args (none, or the count)
getRecent(mems, args) ==
    LET howMany == IF Len(args) = 0 THEN DefaultRecent ELSE args[1]
    IN  Reverse(SliceFrom(mems, 0 - howMany))

(***************************************************************************)
(* A memory store in use                                                   *)
(***************************************************************************)
MaxStored == 2

StoredSequences ==
    { <<Fin(1), Fin(2), Fin(3)>>,
      <<Fin(1), Fin(2), Fin(4)>>,
      <<Fin(1), Fin(4), Fin(9), Fin(16)>>,
      <<Fin(1), Fin(3), Fin(2)>>,
      <<Fin(1)>> }

\* results of the detector, as the programs of the repository store them
StoredResults == {analyze(Arr(s)) : s \in StoredSequences}

\* what the clock and Math.random answer during one call of store
Readings ==
    { [idNow |-> 1, random |-> "k3x9", isoNow |-> 1],
      [idNow |-> 1, random |-> "p7q2", isoNow |-> 2] }

RecentArguments == {<< >>} \cup {<<c>> : c \in 0..(MaxStored + 1)}

StoreInit ==
    /\ NoCall
    /\ frames = << >>
    /\ front \in {"library", "server", "cli"}
    /\ memories = << >>
    /\ stats = EmptyStats
    /\ reply = NoReply

callVars == <<call, arg, count, pc, ran, ratios, result, pmVars, frames>>

\* memoryStore.store(result)
Store(given, reading) ==
    /\ front = "library"
    /\ Len(memories) < MaxStored
    /\ LET memory == Memory(given, reading)
       IN  /\ memories' = Append(memories, memory)
           /\ stats' = updateStats(memories')
           /\ reply' = [op |-> "store", value |-> memory]
    /\ UNCHANGED <<front, callVars>>

\* memoryStore.getRecent(...args)
GetRecent(args) ==
    /\ front = "library"
    /\ reply' = [op |-> "getRecent", args |-> args,
                 value |-> getRecent(memories, args)]
    /\ UNCHANGED <<front, memories, stats, callVars>>

\* memoryStore.clear()
Clear ==
    /\ front = "library"
    /\ memories' = << >>
    /\ stats' = EmptyStats
    /\ reply' = [op |-> "clear"]
    /\ UNCHANGED <<front, callVars>>

(***************************************************************************)
(* server.js: handleAPI with the module's memoryStore                      *)
(***************************************************************************)
DefaultCount == 5

\* a request body that JSON.parse rejects, and one that it turns into data
Unparseable == [parses |-> FALSE]
Parsed(data) == [parses |-> TRUE, data |-> data]

ParseErrorMessage == "Unexpected token in JSON"
ErrorNotArray == "Sequence must be an array"
ErrorThrown == "TypeError"

\* data.sequence (undefined when the key is missing)
SequenceOf(data) ==
    IF "sequence" \in DOMAIN data THEN data.sequence ELSE NullArg

\* data.count || 5: a missing count and the count 0 both give 5
CountOrDefault(data) ==
    IF "count" \in DOMAIN data /\ data.count # 0 THEN data.count
    ELSE DefaultCount

\* { ...result, memoryId: memory.id }, the value given to JSON.stringify
WithMemoryId(given, memory) == [memoryId |-> memory.id] @@ given

ServerSequences ==
    { NotArray,
      Arr(<<Fin(1), Fin(2), Fin(3)>>),
      Arr(<<Fin(1), Fin(3), Fin(2)>>) }

AnalyzeBodies ==
    {Unparseable, Parsed([k \in {} |-> 0])}
    \cup {Parsed([sequence |-> a]) : a \in ServerSequences}

PredictBodies ==
    {Unparseable, Parsed([k \in {} |-> 0])}
    \cup {Parsed([sequence |-> a]) : a \in ServerSequences}
    \cup {Parsed([sequence |-> a, count |-> c]) :
            a \in ServerSequences, c \in 0..MaxCount}

\* no request is being handled
Idle == pc = "done" /\ "pending" \notin DOMAIN reply

\* the handler calls operation c of SequenceDetector with the arguments a, n
BeginCall(c, a, n) ==
    /\ call' = c
    /\ arg' = a
    /\ count' = n
    /\ pc' = IF c = "analyze" THEN "validate" ELSE "pm_analyze"
    /\ ran' = << >>
    /\ ratios' = << >>
    /\ result' = NoResult
    /\ analysis' = NoResult
    /\ predictions' = << >>
    /\ currentSequence' = << >>
    /\ i' = 0
    /\ frames' = frames

\* the call has returned and the handler is done with what it returned
EndCall ==
    /\ call' = "none"
    /\ arg' = NullArg
    /\ count' = 0
    /\ pc' = "done"
    /\ ran' = << >>
    /\ ratios' = << >>
    /\ result' = NoResult
    /\ analysis' = NoResult
    /\ predictions' = << >>
    /\ currentSequence' = << >>
    /\ i' = 0
    /\ frames' = frames

\* POST /api/analyze, up to the call of SequenceDetector.analyze
PostAnalyze(body) ==
    /\ front = "server"
    /\ Idle
    /\ Len(memories) < MaxStored
    /\ IF ~body.parses
       THEN /\ reply' = [op |-> "POST /api/analyze", request |-> body,
                         status |-> 400,
                         body |-> [error |-> ParseErrorMessage]]
            /\ UNCHANGED callVars
       ELSE \E sequence \in {SequenceOf(body.data)} :
                IF ~sequence.isArray
                THEN /\ reply' = [op |-> "POST /api/analyze",
                                  request |-> body, status |-> 400,
                                  body |-> [error |-> ErrorNotArray]]
                     /\ UNCHANGED callVars
                ELSE /\ reply' = [op |-> "POST /api/analyze",
                                  request |-> body, pending |-> TRUE]
                     /\ BeginCall("analyze", sequence, 0)
    /\ UNCHANGED <<front, memories, stats>>

\* POST /api/predict-multiple, up to the call of
\* SequenceDetector.predictMultiple
PostPredictMultiple(body) ==
    /\ front = "server"
    /\ Idle
    /\ Len(memories) < MaxStored
    /\ IF ~body.parses
       THEN /\ reply' = [op |-> "POST /api/predict-multiple",
                         request |-> body, status |-> 400,
                         body |-> [error |-> ParseErrorMessage]]
            /\ UNCHANGED callVars
       ELSE /\ reply' = [op |-> "POST /api/predict-multiple",
                         request |-> body, pending |-> TRUE]
            /\ BeginCall("predictMultiple", SequenceOf(body.data),
                         CountOrDefault(body.data))
    /\ UNCHANGED <<front, memories, stats>>

\* both routes once the call has returned: memoryStore.store(result) and the
\* response; an exception thrown by the call is answered with status 400
ServerRespond(reading) ==
    /\ front = "server"
    /\ "pending" \in DOMAIN reply
    /\ pc \in {"done", "thrown"}
    /\ IF pc = "thrown"
       THEN /\ reply' = [op |-> reply.op, request |-> reply.request,
                         status |-> 400, body |-> [error |-> ErrorThrown]]
            /\ UNCHANGED <<memories, stats>>
       ELSE \E memory \in {Memory(result, reading)} :
              /\ memories' = Append(memories, memory)
              /\ stats' = updateStats(memories')
              /\ reply' = [op |-> reply.op, request |-> reply.request,
                           status |-> 200,
                           body |-> WithMemoryId(result, memory)]
    /\ EndCall
    /\ front' = front

\* GET /api/memories/recent
GetMemoriesRecent ==
    /\ front = "server"
    /\ Idle
    /\ reply' = [op |-> "GET /api/memories/recent", status |-> 200,
                 body |-> getRecent(memories, << >>)]
    /\ UNCHANGED <<front, memories, stats, callVars>>

\* POST /api/memories/clear
PostMemoriesClear ==
    /\ front = "server"
    /\ Idle
    /\ memories' = << >>
    /\ stats' = EmptyStats
    /\ reply' = [op |-> "POST /api/memories/clear", status |-> 200,
                 body |-> [success |-> TRUE, message |-> "Memories cleared"]]
    /\ UNCHANGED <<front, callVars>>

(***************************************************************************)
(* cli.js: interactiveMode with the module's memoryStore.  What the user   *)
(* types is a sequence of characters.                                      *)
(***************************************************************************)
Digits == <<"0", "1", "2", "3", "4", "5", "6", "7", "8", "9">>

IsDigit(c) == \E d \in DOMAIN Digits : Digits[d] = c

DigitValue(c) == (CHOOSE d \in DOMAIN Digits : Digits[d] = c) - 1

RECURSIVE SkipSpaces(_)
SkipSpaces(chars) ==
    IF chars # << >> /\ Head(chars) = " " THEN SkipSpaces(Tail(chars))
    ELSE chars

\* String.prototype.trim
Trim(chars) == Reverse(SkipSpaces(Reverse(SkipSpaces(chars))))

RECURSIVE DigitRun(_)
\* the digits that chars starts with
DigitRun(chars) ==
    IF chars # << >> /\ IsDigit(Head(chars))
    THEN <<Head(chars)>> \o DigitRun(Tail(chars))
    ELSE << >>

RECURSIVE DigitsValue(_, _)
DigitsValue(run, acc) ==
    IF run = << >> THEN acc
    ELSE DigitsValue(Tail(run), acc * 10 + DigitValue(Head(run)))

Unsigned(chars) ==
    IF chars # << >> /\ Head(chars) \in {"-", "+"} THEN Tail(chars) ELSE chars

Signed(chars, v) == IF chars # << >> /\ Head(chars) = "-" THEN Neg(v) ELSE v

\* parseInt(chars): leading blanks, a sign, then digits up to the first
\* character that is not a digit; NaN when there is no digit
ParseInt(chars) ==
    LET t == SkipSpaces(chars)
        run == DigitRun(Unsigned(t))
    IN  IF run = << >> THEN NaN ELSE Signed(t, Fin(DigitsValue(run, 0)))

\* parseFloat(chars) for decimal notation without exponent: leading blanks,
\* a sign, digits, and a point followed by digits; NaN when there is no digit
ParseFloat(chars) ==
    LET t == SkipSpaces(chars)
        u == Unsigned(t)
        whole == DigitRun(u)
        after == SubSeq(u, Len(whole) + 1, Len(u))
        frac == IF after # << >> /\ Head(after) = "."
                THEN DigitRun(Tail(after)) ELSE << >>
    IN  IF whole = << >> /\ frac = << >> THEN NaN
        ELSE Signed(t, Add(Fin(DigitsValue(whole, 0)),
                           Div(Fin(DigitsValue(frac, 0)),
                               Pow(Fin(10), Len(frac)))))

RECURSIVE Split(_)
\* input.split(',')
Split(chars) ==
    IF \E j \in 1..Len(chars) : chars[j] = ","
    THEN LET j == CHOOSE m \in 1..Len(chars) :
                     chars[m] = "," /\ \A l \in 1..(m - 1) : chars[l] # ","
         IN  <<SubSeq(chars, 1, j - 1)>>
             \o Split(SubSeq(chars, j + 1, Len(chars)))
    ELSE <<chars>>

\* input.split(',').map(num => parseFloat(num.trim()))
ParseSequence(input) ==
    LET tokens == Split(input)
    IN  [j \in 1..Len(tokens) |-> ParseFloat(Trim(tokens[j]))]

\* parseInt(countInput) || 5
CliCount(countInput) ==
    LET parsed == ParseInt(countInput)
    IN  IF Truthy(parsed) THEN parsed.n ELSE DefaultCount

CliInputs ==
    { <<"1", ",", " ", "2", ",", "3">>,
      <<"1", ".", "5", ",", "3", "x", ",", "-", "6">>,
      <<"1", ",", "x">> }

CliCountInputs == { << >>, <<"0">>, <<"2">>, <<"x">>, <<"-", "1">> }

InvalidInput == "Invalid input. Please enter numbers separated by commas."

\* option 1, `Analyze a sequence', up to the call of SequenceDetector.analyze
CliAnalyze(input) ==
    /\ front = "cli"
    /\ Idle
    /\ Len(memories) < MaxStored
    /\ \E sequence \in {ParseSequence(input)} :
           IF \E j \in 1..Len(sequence) : sequence[j] = NaN
           THEN /\ reply' = [op |-> "cli analyze", input |-> input,
                             shown |-> [error |-> InvalidInput]]
                /\ UNCHANGED callVars
           ELSE /\ reply' = [op |-> "cli analyze", input |-> input,
                             pending |-> TRUE]
                /\ BeginCall("analyze", Arr(sequence), 0)
    /\ UNCHANGED <<front, memories, stats>>

\* option 2, `Predict multiple terms', up to the call of
\* SequenceDetector.predictMultiple
CliPredictMultiple(input, countInput) ==
    /\ front = "cli"
    /\ Idle
    /\ Len(memories) < MaxStored
    /\ \E sequence \in {ParseSequence(input)} :
           IF \E j \in 1..Len(sequence) : sequence[j] = NaN
           THEN /\ reply' = [op |-> "cli predict", input |-> input,
                             countInput |-> countInput,
                             shown |-> [error |-> InvalidInput]]
                /\ UNCHANGED callVars
           ELSE /\ reply' = [op |-> "cli predict", input |-> input,
                             countInput |-> countInput, pending |-> TRUE]
                /\ BeginCall("predictMultiple", Arr(sequence),
                             CliCount(countInput))
    /\ UNCHANGED <<front, memories, stats>>

\* the record of the request without its mark `pending'
Answered(r) == [x \in DOMAIN r \ {"pending"} |-> r[x]]

\* both options once the call has returned: memoryStore.store(result) and
\* displayResults(result); an exception thrown by the call is caught
CliShow(reading) ==
    /\ front = "cli"
    /\ "pending" \in DOMAIN reply
    /\ pc \in {"done", "thrown"}
    /\ IF pc = "thrown"
       THEN /\ reply' = Answered(reply) @@ [shown |-> [error |-> InvalidInput]]
            /\ UNCHANGED <<memories, stats>>
       ELSE /\ memories' = Append(memories, Memory(result, reading))
            /\ stats' = updateStats(memories')
            /\ reply' = Answered(reply) @@ [shown |-> result]
    /\ EndCall
    /\ front' = front

\* option 4, `View recent memories'
CliRecent ==
    /\ front = "cli"
    /\ Idle
    /\ reply' = [op |-> "cli recent",
                 shown |-> getRecent(memories, <<DefaultRecent>>)]
    /\ UNCHANGED <<front, memories, stats, callVars>>

StoreNext ==
    \/ \E given \in StoredResults, reading \in Readings :
          Store(given, reading)
    \/ \E args \in RecentArguments : GetRecent(args)
    \/ Clear
    \/ \E body \in AnalyzeBodies : PostAnalyze(body)
    \/ \E body \in PredictBodies : PostPredictMultiple(body)
    \/ \E reading \in Readings : ServerRespond(reading)
    \/ GetMemoriesRecent
    \/ PostMemoriesClear
    \/ \E input \in CliInputs : CliAnalyze(input)
    \/ \E input \in CliInputs, countInput \in CliCountInputs :
          CliPredictMultiple(input, countInput)
    \/ \E reading \in Readings : CliShow(reading)
    \/ CliRecent
    \/ Next

StoreSpec == StoreInit /\ [][StoreNext]_vars

(***************************************************************************)
(* Vocabulary of the properties                                            *)
(***************************************************************************)
AnalyzeDone == call = "analyze" /\ pc = "done"
PredictDone == call = "predictMultiple" /\ pc = "done"

Valid(a) == ~InvalidShape(a) /\ ~InvalidElements(a)
AllFinite(s) == \A j \in 1..Len(s) : IsFin(s[j])
AllIntegers(s) == \A j \in 1..Len(s) : IsFin(s[j]) /\ s[j].d = 1

\* the consecutive differences of s all equal d
ConstantDifference(s, d) ==
    /\ Len(s) >= 2
    /\ AllFinite(s)
    /\ \A j \in 1..(Len(s) - 1) : Sub(s[j + 1], s[j]) = d

\* s has no zero element and its consecutive ratios all equal r
ConstantRatio(s, r) ==
    /\ Len(s) >= 2
    /\ AllFinite(s)
    /\ ~HasZero(s)
    /\ \A j \in 1..(Len(s) - 1) : Div(s[j + 1], s[j]) = r

FirstDifference(s) == Sub(s[2], s[1])
FirstRatio(s) == Div(s[2], s[1])

Has(r, key) == key \in DOMAIN r

(***************************************************************************)
(* C1                                                                      *)
(***************************************************************************)
\* C1: for every sequence of length >= 2 whose consecutive differences all
\* equal the same constant d, analyze returns success, type arithmetic,
\* confidence 1.0, prediction = s[last] + d, parameters.difference = d
\* (within 1e-4) and parameters.firstTerm = s[0].
C1_ArithmeticContract ==
    (AnalyzeDone /\ arg.isArray /\ Len(arg.elems) >= 2
       /\ ConstantDifference(arg.elems, FirstDifference(arg.elems)))
    => /\ result.success = TRUE
       /\ result.type = "arithmetic"
       /\ result.confidence = Fin(1)
       /\ result.prediction = Add(Last(arg.elems), FirstDifference(arg.elems))
       /\ Near(result.parameters.difference, FirstDifference(arg.elems))
       /\ result.parameters.firstTerm = arg.elems[1]

C1_Witness ==
    /\ AnalyzeDone
    /\ arg.isArray
    /\ Len(arg.elems) >= 4
    /\ ConstantDifference(arg.elems, Fin(-3))
    /\ result.type = "arithmetic"
    /\ result.prediction = Add(Last(arg.elems), Fin(-3))

(***************************************************************************)
(* C2                                                                      *)
(***************************************************************************)
\* C2 as stated: for every sequence of length >= 2 with no zero element whose
\* consecutive ratios all equal the same r with |r| > 1e-4, analyze returns
\* type geometric with prediction = s[last] * r.
C2_Original ==
    (AnalyzeDone /\ arg.isArray /\ Len(arg.elems) >= 2
       /\ ConstantRatio(arg.elems, FirstRatio(arg.elems))
       /\ Gt(Abs(FirstRatio(arg.elems)), Tolerance))
    => /\ result.type = "geometric"
       /\ result.prediction = Mul(Last(arg.elems), FirstRatio(arg.elems))

\* C2 amended: for every sequence of length >= 2 with no zero element whose
\* consecutive ratios all equal the same r with |r| > 1e-4 and whose
\* consecutive differences are not all within 1e-4 of their mean (the
\* arithmetic detector declines, which needs length >= 3 and r /= 1), analyze
\* returns type geometric with prediction = s[last] * r.
C2_GeometricContract ==
    (AnalyzeDone /\ arg.isArray /\ Len(arg.elems) >= 2
       /\ ConstantRatio(arg.elems, FirstRatio(arg.elems))
       /\ Gt(Abs(FirstRatio(arg.elems)), Tolerance)
       /\ \E j \in 1..(Len(arg.elems) - 1) :
             ~Near(Differences(arg.elems)[j], Average(Differences(arg.elems))))
    => /\ result.type = "geometric"
       /\ result.prediction = Mul(Last(arg.elems), FirstRatio(arg.elems))

C2_Witness ==
    /\ AnalyzeDone
    /\ arg.isArray
    /\ Len(arg.elems) >= 4
    /\ ConstantRatio(arg.elems, Rat(3, 2))
    /\ result.type = "geometric"
    /\ result.prediction = Mul(Last(arg.elems), Rat(3, 2))

(***************************************************************************)
(* C3                                                                      *)
(***************************************************************************)
PolyDegree(c) ==
    IF c[4] # 0 THEN 3 ELSE IF c[3] # 0 THEN 2 ELSE IF c[2] # 0 THEN 1 ELSE 0

ClaimPolyCoeffs == PolyCoeffs \cup {<<762, 37, 1, 0>>}

\* the argument is p(1), ..., p(n) for the integer polynomial with
\* coefficients c, of degree 2 or 3, and n >= degree + 2
IsPolyInput(c) ==
    /\ arg.isArray
    /\ PolyDegree(c) \in {2, 3}
    /\ Len(arg.elems) >= PolyDegree(c) + 2
    /\ arg.elems = PolySeq(c, Len(arg.elems))

PolyOutcome(c) ==
    /\ result.success = TRUE
    /\ result.type = "polynomial"
    /\ result.parameters.degree = PolyDegree(c)
    /\ result.confidence = Rat(9, 10)
    /\ result.prediction = Fin(PolyValue(c, Len(arg.elems) + 1))

\* C3 as stated: for every sequence p(1), ..., p(n) of an integer polynomial p
\* of degree d in {2, 3} with n >= d + 2, analyze returns success, type
\* polynomial, degree d, confidence 0.9 and prediction p(n + 1).
C3_Original ==
    \A c \in ClaimPolyCoeffs : (AnalyzeDone /\ IsPolyInput(c)) => PolyOutcome(c)

\* C3 amended: the same, for the sequences that the geometric detector does
\* not accept, i.e. that contain a zero or whose consecutive ratios are not
\* all within 1e-4 of their mean; in particular [1,4,9,16,25] gives degree 2
\* and prediction 36, and [1,8,27,64,125] gives prediction 216.
C3_PolynomialContract ==
    /\ \A c \in ClaimPolyCoeffs :
          (AnalyzeDone /\ IsPolyInput(c)
             /\ (HasZero(arg.elems) \/ ~IsConstant(Ratios(arg.elems))))
          => PolyOutcome(c)
    /\ (AnalyzeDone /\ arg = Arr(PolySeq(<<0, 0, 1, 0>>, 5)))
          => (result.type = "polynomial" /\ result.parameters.degree = 2
                /\ result.prediction = Fin(36))
    /\ (AnalyzeDone /\ arg = Arr(PolySeq(<<0, 0, 0, 1>>, 5)))
          => (result.type = "polynomial" /\ result.prediction = Fin(216))

C3_Witness ==
    /\ AnalyzeDone
    /\ arg = Arr(<<Fin(1), Fin(8), Fin(27), Fin(64), Fin(125)>>)
    /\ result.type = "polynomial"
    /\ result.parameters.degree = 3
    /\ result.prediction = Fin(216)

(***************************************************************************)
(* C4                                                                      *)
(***************************************************************************)
\* C4: analyze([1,2,4,7,13]) returns success = false with type unknown (none
\* of its difference levels that hold at least two values is constant).
C4_NoPatternClaim ==
    (AnalyzeDone /\ arg = Arr(<<Fin(1), Fin(2), Fin(4), Fin(7), Fin(13)>>))
    => (result.success = FALSE /\ result.type = "unknown")

(***************************************************************************)
(* C5                                                                      *)
(***************************************************************************)
IsInteger(x) == IsFin(x) /\ x.d = 1

ArithmeticContinuation(s, d, n) == [k \in 1..n |-> Add(Last(s), Mul(Fin(k), d))]
GeometricContinuation(s, r, n) == [k \in 1..n |-> Mul(Last(s), Pow(r, k))]

ArithmeticPredictions ==
    (ConstantDifference(arg.elems, FirstDifference(arg.elems))
       /\ IsInteger(FirstDifference(arg.elems)))
    => /\ Has(result, "predictions")
       /\ result.predictions =
             ArithmeticContinuation(arg.elems, FirstDifference(arg.elems), count)

GeometricPredictionsFor(s) ==
    /\ Has(result, "predictions")
    /\ result.predictions = GeometricContinuation(s, FirstRatio(s), count)

IntegerRatioInput(s) ==
    /\ Len(s) >= 3
    /\ ConstantRatio(s, FirstRatio(s))
    /\ IsInteger(FirstRatio(s))
    /\ FirstRatio(s) # Fin(1)

\* C5 as stated: for an arithmetic sequence with constant integer difference d
\* (length >= 2) and count n, predictMultiple returns exactly n predictions,
\* the k-th being s[last] + k*d; for a geometric sequence with no zero
\* element, length >= 3 and constant integer ratio r /= 1, it returns exactly
\* n predictions, the k-th being s[last] * r^k.
C5_Original ==
    (PredictDone /\ arg.isArray /\ Len(arg.elems) >= 2)
    => /\ ArithmeticPredictions
       /\ IntegerRatioInput(arg.elems) => GeometricPredictionsFor(arg.elems)

\* C5 amended: the same, the geometric half for sequences of integers only
\* (a geometric sequence of small fractions is within the tolerance of an
\* arithmetic one and is continued as such); e.g. predictMultiple([3,6,9],5)
\* = [12,15,18,21,24] and predictMultiple([2,4,8],3) = [16,32,64].
C5_MultiStepContract ==
    (PredictDone /\ arg.isArray /\ Len(arg.elems) >= 2)
    => /\ ArithmeticPredictions
       /\ (IntegerRatioInput(arg.elems) /\ AllIntegers(arg.elems))
             => GeometricPredictionsFor(arg.elems)

C5_Witness ==
    /\ PredictDone
    /\ count >= 3
    /\ arg = Arr(<<Fin(2), Fin(4), Fin(8)>>)
    /\ Len(result.predictions) = count
    /\ SubSeq(result.predictions, 1, 3) = <<Fin(16), Fin(32), Fin(64)>>

(***************************************************************************)
(* C6                                                                      *)
(***************************************************************************)
\* C6: analyze returns success = false, type invalid and an error message,
\* and runs no detector, whenever the input is not an array, has fewer than 2
\* elements, or contains an element that is not of number type or is NaN.
C6_InvalidInput ==
    (call = "analyze"
       /\ (~arg.isArray \/ Len(arg.elems) < 2
             \/ \E j \in 1..Len(arg.elems) : arg.elems[j] \in {Str, NaN}))
    => /\ \A j \in 1..Len(ran) : ran[j] = "validate"
       /\ pc \in {"validate", "done"}
       /\ pc = "done" => /\ result.success = FALSE
                         /\ result.type = "invalid"
                         /\ Has(result, "error")

C6_Witness ==
    /\ AnalyzeDone
    /\ arg = Arr(<<Fin(1), NaN, Fin(2)>>)
    /\ ran = <<"validate">>
    /\ result.type = "invalid"

(***************************************************************************)
(* C7                                                                      *)
(***************************************************************************)
\* C7: every sequence of length >= 2 that contains a non-finite element
\* (positive or negative infinity, not only NaN) is rejected by analyze with
\* success = false and type invalid before any detector runs.
C7_NonFiniteRejected ==
    (AnalyzeDone /\ arg.isArray /\ Len(arg.elems) >= 2
       /\ \E j \in 1..Len(arg.elems) : arg.elems[j] \in {PInf, NInf, NaN})
    => /\ result.success = FALSE
       /\ result.type = "invalid"
       /\ ran = <<"validate">>

StepOrder == <<"validate", "arithmetic", "geometric", "polynomial">>

IsPrefix(p, q) == Len(p) <= Len(q) /\ \A j \in 1..Len(p) : p[j] = q[j]

DetectorResult(name, sequence) ==
    CASE name = "arithmetic" -> detectArithmetic(sequence)
      [] name = "geometric" -> detectGeometric(sequence)
      [] name = "polynomial" -> detectPolynomial(sequence)
      [] OTHER -> Decline

\* C9: within one analyze call the steps run in the order validation,
\* arithmetic, geometric, polynomial: validation runs exactly once and before
\* any detector, a detector runs only if validation passed and every earlier
\* detector declined, and the result is that of the first detector that
\* accepts (a constant non-zero sequence is arithmetic with difference 0).
C9_FixedOrder ==
    call = "analyze"
    => /\ IsPrefix(ran, StepOrder)
       /\ pc # "validate" => Len(ran) >= 1
       /\ Len(ran) >= 2 => Valid(arg)
       /\ \A j \in 2..(Len(ran) - 1) : ~DetectorResult(ran[j], arg.elems).isValid
       /\ (pc = "done" /\ result.success)
             => /\ Len(ran) >= 2
                /\ result.type = Last(ran)
                /\ result = DetectorResult(Last(ran), arg.elems)
       /\ (pc = "done" /\ ~result.success /\ Valid(arg))
             => /\ ran = StepOrder
                /\ ~detectPolynomial(arg.elems).isValid
       /\ (pc = "done" /\ arg = Arr(<<Fin(5), Fin(5), Fin(5), Fin(5)>>))
             => /\ result.type = "arithmetic"
                /\ result.parameters.difference = Fin(0)

C9_Witness ==
    /\ AnalyzeDone
    /\ arg = Arr(<<Fin(5), Fin(5), Fin(5), Fin(5)>>)
    /\ ran = <<"validate", "arithmetic">>
    /\ result.type = "arithmetic"
    /\ detectGeometric(arg.elems).isValid

(***************************************************************************)
(* C10                                                                     *)
(***************************************************************************)
\* C10: the result of analyze has success = true iff its type is arithmetic,
\* geometric or polynomial; then prediction, parameters and confidence are
\* present (confidence 1.0 for arithmetic and geometric, 0.9 for polynomial)
\* and no error message is; otherwise the type is invalid or unknown, an
\* error message is present and prediction, parameters and confidence are
\* absent.
C10_ResultShape ==
    AnalyzeDone
    => /\ result.success \in BOOLEAN
       /\ result.success <=> result.type \in {"arithmetic", "geometric", "polynomial"}
       /\ result.success
             => /\ {"prediction", "parameters", "confidence"} \subseteq DOMAIN result
                /\ ~Has(result, "error")
                /\ result.type \in {"arithmetic", "geometric"}
                      => result.confidence = Fin(1)
                /\ result.type = "polynomial" => result.confidence = Rat(9, 10)
       /\ ~result.success
             => /\ result.type \in {"invalid", "unknown"}
                /\ Has(result, "error")
                /\ DOMAIN result \cap {"prediction", "parameters", "confidence"} = {}

C10_Witness ==
    /\ AnalyzeDone
    /\ result.success
    /\ result.type = "polynomial"
    /\ result.confidence = Rat(9, 10)
    /\ ~Has(result, "error")

C12_FirstAnalysisKept ==
    PredictDone
    => LET first == analyze(arg)
       IN  first.success
           => /\ \A f \in {"success", "type", "parameters", "prediction"} :
                    Has(result, f) /\ result[f] = first[f]
              /\ count >= 1
                    => /\ Len(result.predictions) >= 1
                       /\ result.predictions[1] = first.prediction

\* the second iteration fails
C12_Witness ==
    /\ PredictDone
    /\ count >= 2
    /\ result.success
    /\ result.type = "polynomial"
    /\ Len(result.predictions) = 1
    /\ ~analyze(Arr(result.extendedSequence)).success

(***************************************************************************)
(* C13                                                                     *)
(***************************************************************************)
\* C13: in a predictMultiple result that carries predictions, each prediction
\* k equals analyze(sequence followed by predictions 0..k-1).prediction (the
\* pattern is re-derived on the growing sequence at every step), and
\* extendedSequence equals the original sequence followed by the predictions
\* in order, so its length is the input length plus the number of predictions.
C13_Rederived ==
    (PredictDone /\ Has(result, "predictions"))
    => /\ \A k \in 1..Len(result.predictions) :
             LET grown == arg.elems \o SubSeq(result.predictions, 1, k - 1)
             IN  /\ analyze(Arr(grown)).success
                 /\ result.predictions[k] = analyze(Arr(grown)).prediction
       /\ result.extendedSequence = arg.elems \o result.predictions
       /\ Len(result.extendedSequence)
             = Len(arg.elems) + Len(result.predictions)
       /\ result = predictMultiple(arg, count)

C13_Witness ==
    /\ PredictDone
    /\ Has(result, "predictions")
    /\ result.type = "polynomial"
    /\ Len(result.predictions) = MaxCount
    /\ result.predictions[2] # result.predictions[1]
    /\ result.extendedSequence = arg.elems \o result.predictions

(***************************************************************************)
(* C14                                                                     *)
(***************************************************************************)
RECURSIVE Successes(_, _)
\* the number of leading iterations, out of at most n, whose analysis of the
\* grown sequence succeeds
Successes(seq, n) ==
    IF n = 0 THEN 0
    ELSE LET r == analyze(Arr(seq))
         IN  IF ~r.success THEN 0
             ELSE 1 + Successes(Append(seq, r.prediction), n - 1)

C14_LoopBounded ==
    call = "predictMultiple"
    => /\ i <= count
       /\ Len(predictions) = i
       /\ (PredictDone /\ Has(result, "predictions"))
             => /\ Len(result.predictions) <= count
                /\ Len(result.predictions) = Successes(arg.elems, count)

\* C14: for every sequence and every integer count n >= 0, predictMultiple
\* eventually returns; its loop performs at most n iterations and stops at
\* the first iteration whose analysis fails, so the number of predictions is
\* n when every iteration succeeds and otherwise the number of iterations
\* completed before the first failure.
C14_Terminates ==
    /\ []C14_LoopBounded
    /\ (call = "predictMultiple") ~> PredictDone

\* the loop stopped at a failed iteration before count was reached
C14_Witness ==
    /\ PredictDone
    /\ analyze(arg).success
    /\ i = 1
    /\ i < count
    /\ Len(result.predictions) = i
    /\ Successes(arg.elems, count) = 1

RECURSIVE Level(_, _)
\* the k-th difference level of s (level 0 is s itself)
Level(s, k) == IF k = 0 THEN s ELSE Differences(Level(s, k - 1))

\* level k of s exists (it has at least one value) and is constant
ConstantLevel(s, k) == Len(s) - k >= 1 /\ IsConstant(Level(s, k))

\* the index of the first constant level among the first five, 0 if none
FirstConstantLevel(s) ==
    IF \E k \in 1..5 : ConstantLevel(s, k)
    THEN CHOOSE k \in 1..5 :
            ConstantLevel(s, k) /\ \A j \in 1..(k - 1) : ~ConstantLevel(s, j)
    ELSE 0

\* C16: the polynomial detector declines when the sequence has fewer than 4
\* elements, when none of the first 5 difference levels is constant, or when
\* the first constant level has index greater than 4; whenever it accepts,
\* parameters.degree is the index of the first constant difference level and
\* lies in 1..4, and at most 5 difference levels are ever built.
C16_PolynomialLimits ==
    (AnalyzeDone /\ arg.isArray /\ ~InvalidElements(arg))
    => LET s == arg.elems
           r == detectPolynomial(s)
           built == DiffLoop(<<s>>, 0).diffLevels
       IN  /\ Len(s) < 4 => ~r.isValid
           /\ FirstConstantLevel(s) = 0 => ~r.isValid
           /\ FirstConstantLevel(s) > 4 => ~r.isValid
           /\ r.isValid
                 => /\ r.parameters.degree = FirstConstantLevel(s)
                    /\ r.parameters.degree \in 1..4
                    /\ Len(r.parameters.differences) - 1 <= 5
           /\ Len(built) - 1 <= 5
           /\ result.type = "polynomial"
                 => /\ result = r
                    /\ result.parameters.degree = FirstConstantLevel(s)

\* the first constant level is the fifth: the detector has declined
C16_Witness ==
    /\ AnalyzeDone
    /\ arg = Arr(<<Fin(1), Fin(3), Fin(2), Fin(5), Fin(1), Fin(7)>>)
    /\ FirstConstantLevel(arg.elems) = 5
    /\ ran = <<"validate", "arithmetic", "geometric", "polynomial">>
    /\ result.type = "unknown"

(***************************************************************************)
(* C17                                                                     *)
(***************************************************************************)
\* C17: analyze and predictMultiple return an ordinary result value and never
\* throw for any input, including a non-array, null, an empty array, an array
\* with non-numeric elements and a sequence with no recognisable pattern;
\* predictMultiple on an input whose first analysis fails returns that failed
\* result without entering the prediction loop.
C17_NeverThrows ==
    /\ pc # "thrown"
    /\ pc = "done"
          => /\ result # NoResult
             /\ {"success", "type"} \subseteq DOMAIN result
             /\ result.success \in BOOLEAN
    /\ (AnalyzeDone /\ ~Valid(arg))
          => /\ result.success = FALSE
             /\ result.type = "invalid"
    /\ PredictDone
          => LET first == analyze(arg)
             IN  ~first.success
                 => /\ result = first
                    /\ ran = <<"pm_analyze">>
                    /\ predictions = << >>
                    /\ currentSequence = << >>
                    /\ i = 0

\* predictMultiple(null, n) has returned the failed analysis
C17_Witness ==
    /\ PredictDone
    /\ arg = NullArg
    /\ count >= 1
    /\ result = ResultTooShort
    /\ ran = <<"pm_analyze">>

(***************************************************************************)
(* C19                                                                     *)
(***************************************************************************)
C19_ResultsHoldInput ==
    /\ (pc = "done" /\ Has(result, "sequence")) => result.sequence = arg.elems
    /\ (pc = "done" /\ result.type = "polynomial")
          => result.parameters.differences[1] = arg.elems
    /\ (PredictDone /\ Has(result, "extendedSequence"))
          => /\ currentSequence = arg.elems \o predictions
             /\ result.extendedSequence = arg.elems \o result.predictions

Alone(f) ==
    IF f.call = "analyze" THEN analyze(f.arg)
    ELSE predictMultiple(f.arg, f.count)

\* C20: when several callers issue analyze and predictMultiple calls (for
\* instance concurrent API requests sharing one server process), every call
\* returns the same result it returns when run alone, under every
\* interleaving of the calls, because the engine reads and writes no state
\* shared between calls.
C20_Independent ==
    \A p \in Callers :
        /\ frames[p].pc = "done" => frames[p].result = Alone(frames[p])
        /\ frames[p].pc # "done" => frames[p].result = NoResult

\* two predictMultiple calls on different sequences have both returned
\* their predictions
C20_Witness ==
    /\ frames["a"].pc = "done"
    /\ frames["b"].pc = "done"
    /\ frames["a"].call = "predictMultiple"
    /\ frames["b"].call = "predictMultiple"
    /\ frames["a"].arg = Arr(<<Fin(2), Fin(4), Fin(8)>>)
    /\ frames["b"].arg = Arr(<<Fin(1), Fin(4), Fin(9), Fin(16)>>)
    /\ frames["a"].count = MaxCount
    /\ frames["b"].count = MaxCount
    /\ frames["a"].result.predictions[1] = Fin(16)
    /\ frames["b"].result.predictions[1] = Fin(25)

(***************************************************************************)
(* C21                                                                     *)
(***************************************************************************)
\* the mean of the consecutive differences of s: they sum to s[last] - s[0]
MeanDifference(s) == Div(Sub(Last(s), s[1]), Fin(Len(s) - 1))

\* |s[j+1] - s[j] - mean difference|
DifferenceDeviation(s, j) == Abs(Sub(Sub(s[j + 1], s[j]), MeanDifference(s)))

ArithmeticOutcome(s, r) ==
    r.isValid
    => /\ r.type = "arithmetic"
       /\ r.prediction = Add(Last(s), MeanDifference(s))
       /\ r.parameters.difference = MeanDifference(s)
       /\ r.parameters.firstTerm = s[1]

\* C21 as stated: the arithmetic detector accepts a validated sequence if and
\* only if every consecutive difference deviates from the mean difference by
\* at most the tolerance 1e-4 (a deviation of exactly 1e-4 is accepted); on
\* acceptance prediction = s[last] + mean difference, parameters.difference =
\* mean difference and parameters.firstTerm = s[0].
C21_Original ==
    (AnalyzeDone /\ Valid(arg))
    => LET s == arg.elems
           r == detectArithmetic(s)
       IN  /\ r.isValid
              <=> \A j \in 1..(Len(s) - 1) :
                     \/ Lt(DifferenceDeviation(s, j), Tolerance)
                     \/ DifferenceDeviation(s, j) = Tolerance
           /\ ArithmeticOutcome(s, r)

\* C21 amended: the arithmetic detector accepts a validated sequence if and
\* only if every consecutive difference deviates from the mean difference by
\* strictly less than the tolerance 1e-4 (a deviation of exactly 1e-4 is
\* declined); on acceptance prediction = s[last] + mean difference,
\* parameters.difference = mean difference and parameters.firstTerm = s[0].
C21_ArithmeticTolerance ==
    (AnalyzeDone /\ Valid(arg))
    => LET s == arg.elems
           r == detectArithmetic(s)
       IN  /\ r.isValid
              <=> \A j \in 1..(Len(s) - 1) :
                     Lt(DifferenceDeviation(s, j), Tolerance)
           /\ ArithmeticOutcome(s, r)

\* both differences are exactly the tolerance away from their mean: the
\* arithmetic detector has declined
C21_Witness ==
    /\ AnalyzeDone
    /\ arg = Arr(<<Fin(0), Rat(2, 10000), Rat(2, 10000)>>)
    /\ DifferenceDeviation(arg.elems, 1) = Tolerance
    /\ DifferenceDeviation(arg.elems, 2) = Tolerance
    /\ Len(ran) > 2
    /\ result.type # "arithmetic"

(***************************************************************************)
(* C22                                                                     *)
(***************************************************************************)
RatioAt(s, j) == Div(s[j + 1], s[j])

RECURSIVE RatioSum(_, _)
\* the sum of the first m consecutive ratios of s
RatioSum(s, m) == IF m = 0 THEN Zero ELSE Add(RatioSum(s, m - 1), RatioAt(s, m))

MeanRatio(s) == Div(RatioSum(s, Len(s) - 1), Fin(Len(s) - 1))

RatioDeviation(s, j) == Abs(Sub(RatioAt(s, j), MeanRatio(s)))

NoZero(s) == \A j \in 1..Len(s) : s[j] # Zero

\* two ratios of s are at least twice the tolerance apart: then one of them
\* is further than the tolerance from the mean ratio
RatiosSpread(s) ==
    \E j, k \in 1..(Len(s) - 1) :
        ~Lt(Abs(Sub(RatioAt(s, j), RatioAt(s, k))), Add(Tolerance, Tolerance))

GeometricOutcome(s, r) ==
    r.isValid
    => /\ r.type = "geometric"
       /\ r.prediction = Mul(Last(s), MeanRatio(s))
       /\ r.parameters.ratio = MeanRatio(s)
       /\ r.parameters.firstTerm = s[1]

RECURSIVE LastSum(_, _)
\* the sum of the last elements of difference levels 0..k of s
LastSum(s, k) ==
    IF k = 0 THEN Last(s) ELSE Add(LastSum(s, k - 1), Last(Level(s, k)))

\* C23: for a polynomial result of degree d the prediction is the sum, over
\* k = 0..d, of the last element of difference level k of the input (the
\* extension of the difference table by cumulative sums from the constant
\* level up to level 0), both for the detector alone and for the result that
\* analyze returns.
C23_PredictionIsLastSum ==
    (AnalyzeDone /\ Valid(arg))
    => LET s == arg.elems
           r == detectPolynomial(s)
       IN  /\ r.isValid => r.prediction = LastSum(s, r.parameters.degree)
           /\ result.type = "polynomial"
              => result.prediction = LastSum(s, result.parameters.degree)

\* a cubic has been analysed: levels 2 and 3 contribute to the prediction
C23_Witness ==
    /\ AnalyzeDone
    /\ result.type = "polynomial"
    /\ result.parameters.degree = 3
    /\ Last(Level(arg.elems, 2)) # Zero
    /\ Last(Level(arg.elems, 3)) # Zero
    /\ result.prediction # Add(Last(arg.elems), Last(Level(arg.elems, 1)))

(***************************************************************************)
(* C24                                                                     *)
(***************************************************************************)
\* level k of the difference table of a polynomial result r
TableLevel(r, k) == r.parameters.differences[k + 1]

\* every level below level 0 holds the consecutive differences of the level
\* above it
TableIsDifferenced(r) ==
    \A k \in 1..r.parameters.degree :
        \A j \in 1..Len(TableLevel(r, k)) :
            j + 1 <= Len(TableLevel(r, k - 1))
            /\ TableLevel(r, k)[j]
                 = Sub(TableLevel(r, k - 1)[j + 1], TableLevel(r, k - 1)[j])

\* C24 as stated: in a polynomial result of degree d for an input of length n
\* the difference table in parameters holds levels 0..d, each extended by
\* exactly one value: level k has n - k + 1 elements, the last element of
\* level 0 is the prediction, and within every level below 0 consecutive
\* elements of the level above differ by the corresponding element.
C24_Original ==
    (AnalyzeDone /\ result.type = "polynomial")
    => LET n == Len(arg.elems)
           d == result.parameters.degree
       IN  /\ Len(result.parameters.differences) = d + 1
           /\ \A k \in 0..d : Len(TableLevel(result, k)) = n - k + 1
           /\ Last(TableLevel(result, 0)) = result.prediction
           /\ TableIsDifferenced(result)

\* C24 amended: in a polynomial result of degree d for an input of length n
\* the difference table in parameters holds levels 0..d as they were
\* computed, none of them extended: level 0 is the input, level k has n - k
\* elements and holds the consecutive differences of level k - 1; the
\* prediction is not in the table.
C24_TableNotExtended ==
    (AnalyzeDone /\ result.type = "polynomial")
    => LET n == Len(arg.elems)
           d == result.parameters.degree
       IN  /\ Len(result.parameters.differences) = d + 1
           /\ \A k \in 0..d : Len(TableLevel(result, k)) = n - k
           /\ TableLevel(result, 0) = arg.elems
           /\ TableIsDifferenced(result)
           /\ \A k \in 0..d : TableLevel(result, k) = Level(arg.elems, k)

\* a quadratic has been analysed: level 0 of its table ends with the last
\* element of the input, which is not the prediction
C24_Witness ==
    /\ AnalyzeDone
    /\ result.type = "polynomial"
    /\ result.parameters.degree = 2
    /\ Len(TableLevel(result, 2)) = Len(arg.elems) - 2
    /\ Last(TableLevel(result, 0)) = Last(arg.elems)
    /\ Last(TableLevel(result, 0)) # result.prediction

(***************************************************************************)
(* C25                                                                     *)
(***************************************************************************)
Min(a, b) == IF a < b THEN a ELSE b

\* the c most recently stored memories, newest first
NewestFirst(mems, c) == [j \in 1..Min(c, Len(mems)) |-> mems[Len(mems) + 1 - j]]

\* C25: for every integer count >= 0 and every state of the store,
\* getRecent(count) returns exactly min(count, number of stored memories)
\* memories, namely the most recently stored ones, ordered newest first; with
\* the default argument it returns at most 10.
C25_RecentCount ==
    reply.op = "getRecent"
    => /\ Len(reply.args) = 1
          => /\ Len(reply.value) = Min(reply.args[1], Len(memories))
             /\ reply.value = NewestFirst(memories, reply.args[1])
       /\ Len(reply.args) = 0
          => /\ Len(reply.value) <= 10
             /\ reply.value = NewestFirst(memories, 10)

(***************************************************************************)
(* C26                                                                     *)
(***************************************************************************)
\* the positions of the memories of type t
OfType(mems, t) == {j \in 1..Len(mems) : mems[j].type = t}

Successful(mems) == {j \in 1..Len(mems) : mems[j].success}

RECURSIVE SumCounts(_, _)
\* the sum of the counts of byType over the types in S
SumCounts(byType, S) ==
    IF S = {} THEN 0
    ELSE LET t == CHOOSE u \in S : TRUE
         IN  byType[t] + SumCounts(byType, S \ {t})

StatsRecomputed ==
    /\ stats.totalProcessed = Len(memories)
    /\ DOMAIN stats.byType = {memories[j].type : j \in 1..Len(memories)}
    /\ \A t \in DOMAIN stats.byType :
          stats.byType[t] = Cardinality(OfType(memories, t))
    /\ SumCounts(stats.byType, DOMAIN stats.byType) = stats.totalProcessed
    /\ stats.successRate
         = IF Len(memories) = 0 THEN Zero
           ELSE Rat(Cardinality(Successful(memories)), Len(memories))
    /\ ~Lt(stats.averageConfidence, Zero)
    /\ ~Gt(stats.averageConfidence, Fin(1))

\* store appends the memory it returns, clear empties the store, and nothing
\* else touches the memories
OnlyAppends ==
    /\ reply'.op = "store" => memories' = Append(memories, reply'.value)
    /\ reply'.op \in {"clear", "POST /api/memories/clear"} => memories' = << >>
    /\ \/ memories' = memories
       \/ memories' = << >>
       \/ /\ Len(memories') = Len(memories) + 1
          /\ SubSeq(memories', 1, Len(memories)) = memories

\* C26: after any sequence of store and clear operations on a MemoryStore the
\* statistics are exactly those recomputed from the stored memories:
\* totalProcessed is the number of memories stored since the last clear, the
\* byType counts sum to totalProcessed and each is the number of memories of
\* that type, successRate is the number of successful memories divided by
\* totalProcessed (0 when empty) and averageConfidence lies in [0,1]; store
\* only appends and never changes or removes earlier memories.
C26_StatsRecomputed == [](StatsRecomputed) /\ [][OnlyAppends]_vars

\* two memories of different types are stored, one of them a failure
C26_Witness ==
    /\ reply.op = "store"
    /\ Len(memories) = 2
    /\ Cardinality(DOMAIN stats.byType) = 2
    /\ stats.successRate = Rat(1, 2)
    /\ Gt(stats.averageConfidence, Zero)
    /\ Lt(stats.averageConfidence, Fin(1))

Accepted(s) ==
    \/ detectArithmetic(s).isValid
    \/ detectGeometric(s).isValid
    \/ detectPolynomial(s).isValid

\* s followed by the first k predictions of the result
Grown(s, k) == s \o SubSeq(result.predictions, 1, k)

\* C28 as stated: whenever the first analysis of a sequence succeeds, every
\* later iteration of predictMultiple also succeeds, so the result has
\* exactly count predictions: appending the predicted value to a sequence
\* accepted by some detector always yields a sequence that is again accepted
\* by some detector (early failure never happens after a first success).
C28_Original ==
    (PredictDone /\ Valid(arg) /\ Accepted(arg.elems))
    => /\ Has(result, "predictions")
       /\ Len(result.predictions) = count
       /\ \A k \in 0..count : Accepted(Grown(arg.elems, k))

\* C28 amended: when the first analysis of a sequence succeeds, a later
\* iteration of predictMultiple can still fail (the sequence grown by its own
\* predictions need not be accepted by any detector); the result then has
\* fewer than count predictions: as many as the iterations that succeeded
\* before the first failure, the sequence grown by them being the first that
\* no detector accepts.
C28_EarlyFailure ==
    (PredictDone /\ Valid(arg) /\ Accepted(arg.elems))
    => /\ Has(result, "predictions")
       /\ LET made == Len(result.predictions)
          IN  /\ made <= count
              /\ \A k \in 0..(made - 1) : Accepted(Grown(arg.elems, k))
              /\ made < count => ~Accepted(Grown(arg.elems, made))

\* three predictions were asked of a sequence that a detector accepts: one
\* was made, and no detector accepts the sequence grown by it
C28_Witness ==
    /\ PredictDone
    /\ count = 3
    /\ Valid(arg) /\ Accepted(arg.elems)
    /\ Len(result.predictions) = 1
    /\ ~Accepted(Grown(arg.elems, 1))

(***************************************************************************)
(* C29                                                                     *)
(***************************************************************************)
\* C29: every polynomial result returned by analyze has parameters.degree in
\* {2, 3, 4}: degree 1 is never reported through analyze, because a sequence
\* whose first difference level is constant is accepted earlier by the
\* arithmetic detector, which applies the same mean-and-tolerance test.
C29_DegreeAtLeastTwo ==
    AnalyzeDone
    => /\ result.type = "polynomial"
          => /\ result.parameters.degree \in {2, 3, 4}
             /\ ~IsConstant(Differences(arg.elems))
       /\ (Valid(arg) /\ IsConstant(Differences(arg.elems)))
          => result.type = "arithmetic" /\ ran = <<"validate", "arithmetic">>

\* the polynomial detector alone would report degree 1 for the sequence that
\* analyze has classified as arithmetic
C29_Witness ==
    /\ AnalyzeDone
    /\ Valid(arg)
    /\ Len(arg.elems) >= 4
    /\ result.type = "arithmetic"
    /\ detectPolynomial(arg.elems).isValid
    /\ detectPolynomial(arg.elems).parameters.degree = 1

(***************************************************************************)
(* C30                                                                     *)
(***************************************************************************)
\* the count of a request to POST /api/predict-multiple, -1 when omitted
ServerRequested(r) ==
    IF "count" \in DOMAIN r.request.data THEN r.request.data.count ELSE -1

\* C30: a POST /api/predict-multiple request, and the CLI's option `Predict
\* multiple terms', pass the requested count unchanged to predictMultiple:
\* for every requested integer count c >= 0 the response carries at most c
\* predictions, so a request with count 0 yields an empty predictions list;
\* only an omitted count falls back to the default 5.
C30_CountPassedUnchanged ==
    /\ (reply.op = "POST /api/predict-multiple" /\ "status" \in DOMAIN reply
          /\ reply.status = 200 /\ "predictions" \in DOMAIN reply.body)
       => LET c == ServerRequested(reply)
          IN  /\ c >= 0 => Len(reply.body.predictions) <= c
              /\ c = 0 => reply.body.predictions = << >>
              /\ Len(reply.body.predictions) > MaxCount => c = -1
    /\ (reply.op = "cli predict" /\ "shown" \in DOMAIN reply
          /\ "predictions" \in DOMAIN reply.shown)
       => LET c == ParseInt(reply.countInput)
          IN  /\ (c # NaN /\ c.n >= 0)
                 => Len(reply.shown.predictions) <= c.n
              /\ c = Zero => reply.shown.predictions = << >>

=============================================================================
